---------------------------- MODULE Spec2Model ----------------------------
(***************************************************************************)
(* A model of the host-side client of the STM32 NTRU signing token         *)
(* (src/src/main.rs): device location, the serial handshake, the           *)
(* line-counted command exchange, the hex transcoding and the sign and      *)
(* verify workflows of main.                                                *)
(*                                                                         *)
(* Text and binary data are sequences of byte values (0..255); a text      *)
(* literal of the source is written as the sequence of its ASCII codes.    *)
(***************************************************************************)
EXTENDS Integers, Sequences, FiniteSets, TLC

(***************************************************************************)
(* Bounds of the model.                                                    *)
(***************************************************************************)
\* longest device byte stream explored by the exchange-only specification
MaxStream == 4
\* largest required line count explored by the exchange-only specification
MaxLines == 2
\* longest descriptor list explored by the locate-only specification
MaxPorts == 3
\* longest byte sequence explored by the hex-only specification
MaxHexLen == 3
\* program runs explored, one after the other on the same filesystem
MaxRuns == 2
\* the length of a short read of the program runs (a full one fills the buffer)
ShortRead == 16
\* most parts of a path explored by the path-only specification
MaxPathParts == 3

(***************************************************************************)
(* Program constants.                                                      *)
(***************************************************************************)
\* milliseconds, main.rs:12-15
SERIAL_TIMEOUT == 400
INIT_TIMEOUT == 1500
CMD_TIMEOUT == 3000
PROBE_GRANUALITY == 25
\* main.rs:17
NONCE_LEN == (40 + 2) * 2
\* the read buffer of init_communication and send_and_read_resp: vec![0; 64]
BUF_LEN == 64
\* b'\n', b'\r', b'\0'
LF == 10
CR == 13
NUL == 0

(***************************************************************************)
(* Byte-sequence helpers (Vec<u8> / slice operations of the source).       *)
(***************************************************************************)
Min(a, b) == IF a < b THEN a ELSE b

\* slice[from..] with 0-based `from`
Drop(s, k) == SubSeq(s, k + 1, Len(s))

\* slice[..k]
Take(s, k) == SubSeq(s, 1, k)

\* *res.last().unwrap_or(&b'\0')
LastOrNul(s) == IF Len(s) = 0 THEN NUL ELSE s[Len(s)]

\* Vec::pop: removes the last element, does nothing on an empty vector
Pop(s) == IF Len(s) = 0 THEN s ELSE SubSeq(s, 1, Len(s) - 1)

IsTerminator(c) == c = LF \/ c = CR

\* iter().filter(|&&c| c == b'\n').count()
CountLF(s) == Cardinality({i \in 1..Len(s) : s[i] = LF})

\* the 64-byte read buffer after a read of `chunk` into a zeroed buffer
ReadBuf(chunk) == [i \in 1..BUF_LEN |-> IF i <= Len(chunk) THEN chunk[i] ELSE NUL]

\* an `if` in place of the `while`: one terminator popped
StripLast(s) == IF IsTerminator(LastOrNul(s)) THEN Pop(s) ELSE s

\* main.rs:91-93: while last is '\n' or '\r' { res.pop() }
StripRun(s) ==
    LET kept == {i \in 1..Len(s) : ~IsTerminator(s[i])}
    IN IF kept = {} THEN <<>>
       ELSE Take(s, CHOOSE i \in kept : \A j \in kept : j <= i)

VARIABLES
    pc,          \* position of the program
    ports,       \* locate_token: the descriptors not yet popped
    port_name,   \* locate_token: the result (NoPort while none)
    ports_arg,   \* locate_token: the list the call was made with
    written,     \* serial handle: the writes made so far, in order
    pending,     \* serial handle: bytes the device has sent and the host has not read
    buffer,      \* the response buffer (`buffer` of main, `res` of send_and_read_resp)
    n,           \* send_and_read_resp: the remaining line count (`mut n`)
    n_arg,       \* send_and_read_resp: the line count the call was made with
    elapsed,     \* ms since `start` of the running handshake / exchange
    error,       \* the Err a handshake / exchange returned, "" while none
    res,         \* init_communication: the accumulator `res`
    stage,       \* which call is running: "init", "info", "sign", "verify"; "unit" alone
    file_path,   \* argv[1]
    fs,          \* the filesystem: path -> content, or NoFile
    data,        \* get_files: the payload (sign) or the stripped sidecar (verify)
    sig_file,    \* get_files: TRUE when a writable sidecar handle was returned (Some)
    info_msg,    \* the AT+I reply as main reads it
    max_msg_len, \* the capacity parsed from the AT+I reply
    exit_code,   \* "running", or how the run ended: "SUCCESS", "FAILURE", "panic"
    stderr,      \* the message of the run's eprintln!, "" while none
    runs,        \* program runs started so far
    fs0,         \* history: the filesystem when the current run started
    dev,         \* history: what kind of reply the device gave to each command of the run
    signed,      \* history: the last sidecar write of a sign run, and the file it signed
    received,    \* history: the bytes the running exchange has read, in order
    hex_in,      \* hex specification: the bytes to encode
    hex_text,    \* hex specification: the encoded text
    hex_out,     \* hex specification: the decoding result
    base_path    \* path specification: the path main.rs:284 gives for the base file

xvars == <<buffer, n, n_arg, elapsed, error, received>>
serial == <<written, pending>>
locvars == <<ports, port_name, ports_arg>>
mainvars == <<stage, file_path, fs, data, sig_file, info_msg, max_msg_len, exit_code,
              stderr, runs, res, fs0, dev, signed>>
hexvars == <<hex_in, hex_text, hex_out>>
pathvars == <<base_path>>
vars == <<pc, locvars, serial, xvars, mainvars, hexvars, pathvars>>

NoPort == "<none>"
NoFile == "<absent>"

(***************************************************************************)
(* send_and_read_resp, main.rs:67-106.                                      *)
(***************************************************************************)
\* one iteration of the outer `while n <= 0` loop, main.rs:88-98
TrimStep(r, m) ==
    IF IsTerminator(LastOrNul(r))
    THEN [res |-> StripRun(r), n |-> m + 1]
    ELSE [res |-> Pop(r), n |-> m]

\* main.rs:81: n -= buf.iter().filter(|&&c| c == b'\n').count()
CountDown(m, chunk) == m - CountLF(ReadBuf(chunk))

\* the serial timeout in place of the command timeout
CmdDeadlineIsSerialTimeout(t) == t > SERIAL_TIMEOUT

\* main.rs:101: Instant::now().duration_since(start) > CMD_TIMEOUT
CmdDeadlinePassed(t) == t > CMD_TIMEOUT

\* One pass of the loop body, main.rs:76-105: a read that delivers the next k
\* pending bytes (k = 0: Ok(0) or Err, nothing appended) and lasts d ms, then
\* the completion test, the deadline test and the sleep.  Once the count is
\* reached the clock is not read again: elapsed is set back to 0.
XIter(k, d) ==
    /\ pc = "x_loop"
    /\ k <= Min(BUF_LEN, Len(pending))
    /\ LET chunk == Take(pending, k)
           n1 == IF k > 0 THEN CountDown(n, chunk) ELSE n
           t1 == elapsed + d
       IN /\ pending' = Drop(pending, k)
          /\ buffer' = IF k > 0 THEN buffer \o chunk ELSE buffer
          /\ received' = received \o chunk
          /\ n' = n1
          /\ IF n1 <= 0
             THEN pc' = "x_trim" /\ elapsed' = 0 /\ error' = error
             ELSE IF CmdDeadlinePassed(t1)
                  THEN pc' = "x_err" /\ elapsed' = t1 /\ error' = "No response"
                  ELSE /\ pc' = "x_loop"
                       /\ elapsed' = t1 + PROBE_GRANUALITY
                       /\ error' = error
    /\ UNCHANGED <<written, n_arg, locvars, mainvars, hexvars, pathvars>>

\* main.rs:88-99: one iteration of `while n <= 0`, then `return Ok(())`
\* as soon as n > 0
XTrim ==
    /\ pc = "x_trim"
    /\ n <= 0
    /\ LET t == TrimStep(buffer, n)
       IN /\ buffer' = t.res
          /\ n' = t.n
          /\ pc' = IF t.n <= 0 THEN "x_trim" ELSE "x_ok"
    /\ UNCHANGED <<n_arg, elapsed, error, received, serial, locvars, mainvars, hexvars, pathvars>>


(***************************************************************************)
(* locate_token, main.rs:21-34.                                            *)
(***************************************************************************)
\* 0x0420, 0x2137
TOKEN_VID == 1056
TOKEN_PID == 8503

\* Option<String>::None of UsbPortInfo.manufacturer / .product
NoneStr == "<None>"

\* Option::unwrap_or("".to_string())
UnwrapOrEmpty(o) == IF o = NoneStr THEN "" ELSE o

\* main.rs:24-29: the descriptor is a UsbPort with the token's identity
TokenMatchesMissingStrings(port) ==
    /\ port.port_type = "UsbPort"
    /\ port.vid = TOKEN_VID
    /\ port.pid = TOKEN_PID
    /\ port.manufacturer \in {"ABW", NoneStr}
    /\ port.product \in {"STM32 NTRU Token", NoneStr}

TokenMatches(port) ==
    /\ port.port_type = "UsbPort"
    /\ port.vid = TOKEN_VID
    /\ port.pid = TOKEN_PID
    /\ UnwrapOrEmpty(port.manufacturer) = "ABW"
    /\ UnwrapOrEmpty(port.product) = "STM32 NTRU Token"

\* main.rs:22-33: one pass of the loop: `ports.pop()?`, then the test
LocateStep ==
    /\ pc = "locate"
    /\ IF Len(ports) = 0
       THEN /\ port_name' = NoPort
            /\ pc' = "located"
            /\ UNCHANGED ports
       ELSE LET port == ports[Len(ports)]
            IN /\ ports' = Pop(ports)
               /\ IF TokenMatches(port)
                  THEN port_name' = port.port_name /\ pc' = "located"
                  ELSE port_name' = port_name /\ pc' = "locate"
    /\ UNCHANGED <<ports_arg, serial, xvars, mainvars, hexvars, pathvars>>

(***************************************************************************)
(* Hex transcoding: the encoding of main.rs:224-227 and decode_hex,        *)
(* main.rs:147-152.                                                        *)
(***************************************************************************)
\* a hex digit value 0..15 as a lowercase character
LowerHexChar(d) == IF d < 10 THEN 48 + d ELSE 87 + d

\* format!("{:x}", b): no zero padding
FormatByteUnpadded(b) ==
    IF b < 16 THEN <<LowerHexChar(b)>>
    ELSE <<LowerHexChar(b \div 16), LowerHexChar(b % 16)>>

\* format!("{:02x}", b)
FormatByte(b) == <<LowerHexChar(b \div 16), LowerHexChar(b % 16)>>

\* data.iter().map(|b| format!("{:02x}", b)).collect::<String>()
\* (the concatenation is evaluated by halves)
RECURSIVE EncodeHex(_)
EncodeHex(bytes) ==
    IF Len(bytes) = 0 THEN <<>>
    ELSE IF Len(bytes) = 1 THEN FormatByte(bytes[1])
    ELSE EncodeHex(Take(bytes, Len(bytes) \div 2))
            \o EncodeHex(Drop(bytes, Len(bytes) \div 2))

\* char::to_digit(16): the value of a hex digit character, -1 for any other
HexDigitValue(c) ==
    IF c >= 48 /\ c <= 57 THEN c - 48
    ELSE IF c >= 97 /\ c <= 102 THEN c - 87
    ELSE IF c >= 65 /\ c <= 70 THEN c - 55
    ELSE -1

\* u8::from_str_radix(t, 16) of a two-character text: a leading '+' is a sign,
\* every other character must be a hex digit; -1 stands for Err
FromStrRadix16(t) ==
    IF t[1] = 43
    THEN HexDigitValue(t[2])
    ELSE IF HexDigitValue(t[1]) < 0 \/ HexDigitValue(t[2]) < 0
         THEN -1
         ELSE 16 * HexDigitValue(t[1]) + HexDigitValue(t[2])

Ok(v) == [kind |-> "Ok", val |-> v]
Err == [kind |-> "Err", val |-> <<>>]
Panic == [kind |-> "panic", val |-> <<>>]

\* decode_hex: the pairs are taken left to right and collect stops at the
\* first Err; `&s[i..i + 2]` aborts when one character is left, which is
\* reached only when every pair before it parsed
DecodeHex(s) ==
    LET pairs == Len(s) \div 2
        value(i) == FromStrRadix16(SubSeq(s, 2 * i - 1, 2 * i))
    IN IF \E i \in 1..pairs : value(i) < 0 THEN Err
       ELSE IF Len(s) % 2 = 1 THEN Panic
       ELSE Ok([i \in 1..pairs |-> value(i)])

HexEncode ==
    /\ pc = "hex_encode"
    /\ hex_text' = EncodeHex(hex_in)
    /\ pc' = "hex_decode"
    /\ UNCHANGED <<hex_in, hex_out, pathvars, locvars, serial, xvars, mainvars>>

HexDecode ==
    /\ pc = "hex_decode"
    /\ hex_out' = DecodeHex(hex_text)
    /\ pc' = "hex_done"
    /\ UNCHANGED <<hex_in, hex_text, pathvars, locvars, serial, xvars, mainvars>>

(***************************************************************************)
(* Text literals of main.rs, as ASCII codes.                               *)
(***************************************************************************)
\* "\r\n"
CRLF == <<13, 10>>
\* "AT+I\r\n", "AT+S ", "AT+V "
AT_I == <<65, 84, 43, 73, 13, 10>>
AT_S == <<65, 84, 43, 83, 32>>
AT_V == <<65, 84, 43, 86, 32>>
\* "ERROR"
ERROR == <<69, 82, 82, 79, 82>>
\* ".sig"
DOT_SIG == <<46, 115, 105, 103>>
\* "|"
PIPE == 124
\* Sha3_512::output_size()
SHA3_512_SIZE == 64

(***************************************************************************)
(* String operations of the standard library, on ASCII text.               *)
(***************************************************************************)
\* str::ends_with
EndsWith(s, suffix) ==
    /\ Len(s) >= Len(suffix)
    /\ Drop(s, Len(s) - Len(suffix)) = suffix

\* str::starts_with
StartsWith(s, prefix) ==
    /\ Len(s) >= Len(prefix)
    /\ Take(s, Len(prefix)) = prefix

\* str::contains
Contains(s, pat) ==
    \E i \in 0..(Len(s) - Len(pat)) : SubSeq(s, i + 1, i + Len(pat)) = pat

\* str::replace(pat, ""): every non-overlapping match, left to right, removed
RECURSIVE RemoveAll(_, _)
RemoveAll(s, pat) ==
    IF Len(s) = 0 THEN <<>>
    ELSE IF StartsWith(s, pat) THEN RemoveAll(Drop(s, Len(pat)), pat)
    ELSE <<s[1]>> \o RemoveAll(Drop(s, 1), pat)

\* char::is_whitespace on ASCII: \t \n \v \f \r and space
IsWhitespace(c) == (c >= 9 /\ c <= 13) \/ c = 32

IsDigit(c) == c >= 48 /\ c <= 57

\* the index of the last '\n' of s, 0 when it has none
LastLFIndex(s) ==
    LET at == {i \in 1..Len(s) : s[i] = LF}
    IN IF at = {} THEN 0 ELSE CHOOSE i \in at : \A j \in at : j <= i

\* str::lines().last(): None for the empty text; a final "\n" or "\r\n" ends
\* the last line and is not part of it
NoLine == <<-1>>
LastLine(s) ==
    IF Len(s) = 0 THEN NoLine
    ELSE IF s[Len(s)] = LF
         THEN LET body == Pop(s)
                  line == Drop(body, LastLFIndex(body))
              IN IF LastOrNul(line) = CR THEN Pop(line) ELSE line
         ELSE Drop(s, LastLFIndex(s))

\* the text without its trailing whitespace
RECURSIVE TrimEnd(_)
TrimEnd(s) == IF Len(s) > 0 /\ IsWhitespace(s[Len(s)]) THEN TrimEnd(Pop(s)) ELSE s

\* the longest suffix of s without whitespace
RECURSIVE LastWord(_)
LastWord(s) ==
    IF Len(s) = 0 \/ IsWhitespace(s[Len(s)]) THEN <<>>
    ELSE LastWord(Pop(s)) \o <<s[Len(s)]>>

\* str::split_whitespace().last(): None when the text has no word
NoToken == <<-1>>
LastToken(s) == IF Len(TrimEnd(s)) = 0 THEN NoToken ELSE LastWord(TrimEnd(s))

RECURSIVE DigitsValue(_)
DigitsValue(s) ==
    IF Len(s) = 0 THEN 0 ELSE 10 * DigitsValue(Pop(s)) + (s[Len(s)] - 48)

\* str::parse::<usize>(): an optional '+', then one or more decimal digits;
\* -1 stands for Err.  (Texts of at most 9 digits: the value fits usize.)
ParseUsize(s) ==
    LET digits == IF Len(s) > 0 /\ s[1] = 43 THEN Drop(s, 1) ELSE s
    IN IF Len(digits) = 0 \/ Len(digits) > 9 THEN -1
       ELSE IF \A i \in 1..Len(digits) : IsDigit(digits[i])
            THEN DigitsValue(digits)
            ELSE -1

(***************************************************************************)
(* External primitives.                                                    *)
(***************************************************************************)
\* Sha3_512 over a file's bytes: the hash itself is not modelled; a digest is
\* 64 bytes that differ for different contents (of fewer than 64 bytes).
Sha3_512(content) ==
    [i \in 1..SHA3_512_SIZE |->
        IF i <= Len(content) THEN content[i]
        ELSE IF i = Len(content) + 1 THEN 128 ELSE 0]

\* u64::to_le_bytes of a number of seconds below 2^31
ToLeBytes(t) ==
    <<t % 256, (t \div 256) % 256, (t \div 65536) % 256, (t \div 16777216) % 256,
      0, 0, 0, 0>>

\* a sequence reversed
RECURSIVE Reverse(_)
Reverse(s) == IF Len(s) = 0 THEN <<>> ELSE <<s[Len(s)]>> \o Reverse(Pop(s))

\* a <= b for equally long big-endian byte sequences read as unsigned numbers
RECURSIVE LexLE(_, _)
LexLE(a, b) ==
    IF Len(a) = 0 THEN TRUE
    ELSE IF a[1] < b[1] THEN TRUE
    ELSE IF a[1] > b[1] THEN FALSE
    ELSE LexLE(Drop(a, 1), Drop(b, 1))

\* The timestamp stays the 8 little-endian bytes it is decoded to:
\* u64::from_le_bytes(..) as i64 is 0 exactly when every byte is 0, and is
\* negative exactly when the top bit of the last byte is set.
TimestampIsZero(le) == \A i \in 1..8 : le[i] = 0

\* 8210266876799 (+262142-12-31T23:59:59) and -8334601228800
\* (-262143-01-01T00:00:00), the first and last seconds chrono represents,
\* big-endian, the second in two's complement
CHRONO_MAX_BE == <<0, 0, 7, 119, 154, 10, 107, 127>>
CHRONO_MIN_BE == <<255, 255, 248, 107, 115, 13, 238, 0>>

\* DateTime::from_timestamp(timestamp, 0).is_some()
FromTimestampIsSome(le) ==
    IF le[8] < 128
    THEN LexLE(Reverse(le), CHRONO_MAX_BE)
    ELSE LexLE(CHRONO_MIN_BE, Reverse(le))

(***************************************************************************)
(* The values of the variables a specification does not use.               *)
(***************************************************************************)
LocIdle == ports = <<>> /\ port_name = NoPort /\ ports_arg = <<>>
SerialIdle == written = <<>> /\ pending = <<>>
NoDev == [init |-> "", info |-> "", cmd |-> ""]
NotSigned == [ok |-> FALSE, content |-> <<>>]
\* the replies of a device that works, in a sign run
GoodSignDev == [init |-> "good", info |-> "good", cmd |-> "envelope"]
RunIdle ==
    /\ file_path = <<>>
    /\ data = <<>>
    /\ sig_file = FALSE
    /\ info_msg = <<>>
    /\ max_msg_len = 0
    /\ exit_code = "running"
    /\ stderr = ""
    /\ res = <<>>
    /\ dev = NoDev
    /\ base_path = <<>>
MainIdle ==
    /\ RunIdle
    /\ fs = <<>>
    /\ fs0 = <<>>
    /\ runs = 0
    /\ signed = NotSigned
XIdle ==
    /\ buffer = <<>> /\ n = 0 /\ n_arg = 0 /\ elapsed = 0 /\ error = ""
    /\ received = <<>>
HexIdle == hex_in = <<>> /\ hex_text = <<>> /\ hex_out = Ok(<<>>)

(***************************************************************************)
(* SpecExchange: one call of send_and_read_resp, taken after its write,    *)
(* against every device byte stream of at most MaxStream bytes over        *)
(* XAlphabet, delivered in every chunking, with timed-out reads in         *)
(* between, for every required line count 1..MaxLines.                     *)
(***************************************************************************)
\* 'a', '\r', '\n'
XAlphabet == {97, CR, LF}

Streams == UNION {[1..k -> XAlphabet] : k \in 0..MaxStream}

InitExchange ==
    /\ pc = "x_loop"
    /\ stage = "unit"
    /\ pending \in Streams
    /\ written = <<>>
    /\ buffer = <<>>
    /\ n_arg \in 1..MaxLines
    /\ n = n_arg
    /\ elapsed = 0
    /\ error = ""
    /\ received = <<>>
    /\ LocIdle /\ MainIdle /\ HexIdle

\* a read that brings data returns at once; one that brings none lasts the
\* serial timeout
ReadTime(k) == IF k = 0 THEN SERIAL_TIMEOUT ELSE 0

NextExchange ==
    \/ \E k \in 0..BUF_LEN : XIter(k, ReadTime(k))
    \/ XTrim

SpecExchange == InitExchange /\ [][NextExchange]_vars

\* the loop of send_and_read_resp runs on its own: no step of it waits for
\* anything but the read, which returns within the serial timeout
FairSpecExchange == SpecExchange /\ WF_vars(NextExchange)

(***************************************************************************)
(* Claims about the exchange primitive.                                    *)
(***************************************************************************)
XDone == pc \in {"x_ok", "x_err"}

\* C1: a call of send_and_read_resp that returns Ok holds exactly n_arg lines'
\* worth of payload (n_arg - 1 line breaks) with no CR/LF left at its end, and
\* a call that returns Err does so after the command deadline.
C1_ExactlyNLines ==
    /\ (pc = "x_ok" /\ stage = "unit") =>
           /\ CountLF(buffer) + 1 = n_arg
           /\ ~IsTerminator(LastOrNul(buffer))
    /\ (pc = "x_err" /\ stage = "unit") => CmdDeadlinePassed(elapsed)

\* C2: every call of send_and_read_resp ends, Complete or TimedOut.
C2_Terminates == <>XDone

\* the trimming loop with nothing left to pop and the count still <= 0:
\* its body changes nothing, so it never leaves
C2_StuckTrimming == pc = "x_trim" /\ n <= 0 /\ buffer = <<>>

(***************************************************************************)
(* SpecLocate: one call of locate_token on every list of at most MaxPorts  *)
(* descriptors drawn from Descriptors.                                     *)
(***************************************************************************)
Usb(name, vid, pid, man, prod) ==
    [port_name |-> name, port_type |-> "UsbPort", vid |-> vid, pid |-> pid,
     manufacturer |-> man, product |-> prod]

\* two tokens, the near misses of every field, and a port that is not USB
Descriptors ==
    { Usb("ttyACM0", TOKEN_VID, TOKEN_PID, "ABW", "STM32 NTRU Token"),
      Usb("ttyACM1", TOKEN_VID, TOKEN_PID, "ABW", "STM32 NTRU Token"),
      Usb("ttyACM2", TOKEN_VID + 1, TOKEN_PID, "ABW", "STM32 NTRU Token"),
      Usb("ttyACM3", TOKEN_VID, TOKEN_PID - 1, "ABW", "STM32 NTRU Token"),
      Usb("ttyACM4", TOKEN_VID, TOKEN_PID, NoneStr, "STM32 NTRU Token"),
      Usb("ttyACM5", TOKEN_VID, TOKEN_PID, "ABW", NoneStr),
      Usb("ttyACM6", TOKEN_VID, TOKEN_PID, "abw", "STM32 NTRU Token"),
      Usb("ttyACM7", TOKEN_VID, TOKEN_PID, "ABW", ""),
      [port_name |-> "ttyS0", port_type |-> "PciPort", vid |-> TOKEN_VID,
       pid |-> TOKEN_PID, manufacturer |-> "ABW", product |-> "STM32 NTRU Token"] }

PortLists == UNION {[1..k -> Descriptors] : k \in 0..MaxPorts}

InitLocate ==
    /\ pc = "locate"
    /\ ports \in PortLists
    /\ ports_arg = ports
    /\ port_name = NoPort
    /\ stage = "unit"
    /\ SerialIdle /\ XIdle /\ MainIdle /\ HexIdle

NextLocate == LocateStep

SpecLocate == InitLocate /\ [][NextLocate]_vars

\* C9: the claim's own reading of "is the token"
C9_IsToken(d) ==
    /\ d.port_type = "UsbPort"
    /\ d.vid = 1056 /\ d.pid = 8503
    /\ d.manufacturer = "ABW"
    /\ d.product = "STM32 NTRU Token"

C9_Matching == {i \in 1..Len(ports_arg) : C9_IsToken(ports_arg[i])}

\* C9: locate_token returns not-found exactly when no descriptor of its list
\* is the token, and otherwise the port name of the last descriptor, in
\* enumeration order, that is.
C9_LocateLastMatch ==
    pc = "located" =>
        IF C9_Matching = {}
        THEN port_name = NoPort
        ELSE port_name =
                ports_arg[CHOOSE i \in C9_Matching :
                             \A j \in C9_Matching : j <= i].port_name

\* a call that returned the later of two tokens, past descriptors that lack a
\* manufacturer or product string
C9_Witness ==
    /\ pc = "located"
    /\ Len(ports_arg) = 3
    /\ ports_arg[1].port_name = "ttyACM0"
    /\ ports_arg[2].port_name = "ttyACM1"
    /\ ports_arg[3].manufacturer = NoneStr
    /\ port_name = "ttyACM1"

(***************************************************************************)
(* SpecHex: encode then decode, for every single byte and for every        *)
(* sequence of at most MaxHexLen bytes drawn from HexSample.               *)
(***************************************************************************)
HexSample == {0, 9, 10, 15, 16, 43, 171, 255}

HexInputs ==
    {<<b>> : b \in 0..255} \cup UNION {[1..k -> HexSample] : k \in 0..MaxHexLen}

InitHex ==
    /\ pc = "hex_encode"
    /\ hex_in \in HexInputs
    /\ hex_text = <<>>
    /\ hex_out = Ok(<<>>)
    /\ stage = "unit"
    /\ LocIdle /\ SerialIdle /\ XIdle /\ MainIdle

NextHex == HexEncode \/ HexDecode

SpecHex == InitHex /\ [][NextHex]_vars

\* 0-9, a-f
C10_IsLowerHex(c) == (c >= 48 /\ c <= 57) \/ (c >= 97 /\ c <= 102)

\* C10: decode_hex(encode_hex(b)) = b, and the encoding is two lowercase hex
\* characters per byte.
C10_HexRoundTrip ==
    /\ pc \in {"hex_decode", "hex_done"} =>
          /\ Len(hex_text) = 2 * Len(hex_in)
          /\ \A i \in 1..Len(hex_text) : C10_IsLowerHex(hex_text[i])
    /\ pc = "hex_done" => hex_out = [kind |-> "Ok", val |-> hex_in]

\* a round trip of a sequence with a byte below 16 (a leading zero digit) and
\* a byte above 159 (a letter digit)
C10_Witness ==
    /\ pc = "hex_done"
    /\ Len(hex_in) = MaxHexLen
    /\ \E i \in 1..Len(hex_in) : hex_in[i] < 16
    /\ \E i \in 1..Len(hex_in) : hex_in[i] > 159
    /\ hex_out.val = hex_in

(***************************************************************************)
(* The filesystem and the device, as main meets them.                      *)
(***************************************************************************)
File(content) == [exists |-> TRUE, content |-> content]
Absent == [exists |-> FALSE, content |-> <<>>]

\* std::fs::File::open / read of a path
Lookup(f, path) == IF path \in DOMAIN f THEN f[path] ELSE Absent

\* write_all on a handle opened with write(true).create(true), at offset 0,
\* over a file of content `old`: without truncate(true) the bytes of `old`
\* past the written ones stay
WriteAtStartTruncating(old, bytes) == bytes

WriteAtStart(old, bytes) == bytes \o Drop(old, Len(bytes))

\* main.rs:137: the length test of get_files on the stripped sidecar
SidecarInvalidOddOnly(d) == Len(d) % 2 # 0

SidecarInvalid(d) ==
    Len(d) % 2 # 0 \/ Len(d) < NONCE_LEN + SHA3_512_SIZE * 2 + 4

\* main.rs:216: max_msg_len < Sha3_512::output_size() + 8 + 2
CapacityInsufficientNoDigest(m) == m < 8 + 2

CapacityInsufficient(m) == m < SHA3_512_SIZE + 8 + 2

\* main.rs:235, 257: String::from_utf8_lossy(&buffer).contains("ERROR")
ContainsErrorLowercase(b) == Contains(b, <<101, 114, 114, 111, 114>>)

ContainsError(b) == Contains(b, ERROR)

\* main.rs:296: file_hash != hash
HashDiffersFirstByte(file_hash, hash) == file_hash[1] # hash[1]

HashDiffers(file_hash, hash) == file_hash # hash

\* main.rs:206-214: the last whitespace-delimited token of the last line,
\* parsed; each unwrap() aborts on None / Err
ParseCapacity(msg) ==
    IF LastLine(msg) = NoLine THEN Panic
    ELSE IF LastToken(LastLine(msg)) = NoToken THEN Panic
    ELSE IF ParseUsize(LastToken(LastLine(msg))) < 0 THEN Panic
    ELSE Ok(ParseUsize(LastToken(LastLine(msg))))

\* main.rs:111-123: timestamp + | + sha3_512 of file
SignRequest(now, content) == ToLeBytes(now) \o <<PIPE>> \o Sha3_512(content)

\* main.rs:223-229
SignCommand(d) == AT_S \o EncodeHex(d) \o CRLF

\* main.rs:249-251
VerifyCommand(d) == AT_V \o d \o CRLF

\* main.rs:284: file_path.replace(".sig", "")
BasePathOf(path) == RemoveAll(path, DOT_SIG)

\* main.rs:261-266: the timestamp field decoded to its 8 little-endian bytes;
\* a failed decode gives the 8 zero bytes
TimestampField(d) ==
    LET r == DecodeHex(SubSeq(d, NONCE_LEN + 1, NONCE_LEN + 16))
    IN IF r.kind = "Ok" /\ Len(r.val) = 8 THEN r.val ELSE [i \in 1..8 |-> 0]

\* main.rs:271-273: the digest field decoded; the slice aborts when the data
\* is shorter than its end, the unwrap() when the field is not hex
DigestFieldNoSeparator(d) ==
    IF Len(d) < NONCE_LEN + 16 + SHA3_512_SIZE * 2 THEN Panic
    ELSE LET r == DecodeHex(SubSeq(d, NONCE_LEN + 17,
                                   NONCE_LEN + 16 + SHA3_512_SIZE * 2))
         IN IF r.kind = "Ok" THEN r ELSE Panic

DigestField(d) ==
    IF Len(d) < NONCE_LEN + 18 + SHA3_512_SIZE * 2 THEN Panic
    ELSE LET r == DecodeHex(SubSeq(d, NONCE_LEN + 19,
                                   NONCE_LEN + 18 + SHA3_512_SIZE * 2))
         IN IF r.kind = "Ok" THEN r ELSE Panic

\* main.rs:261-306: what the verify branch does after a reply without ERROR
VerifyOutcome(d, f, path) ==
    IF TimestampIsZero(TimestampField(d))
    THEN [exit |-> "FAILURE", msg |-> "Error: Malformed timestamp in signature"]
    ELSE IF DigestField(d).kind = "panic"
    THEN [exit |-> "panic", msg |-> "panicked"]
    ELSE IF ~FromTimestampIsSome(TimestampField(d))
    THEN [exit |-> "FAILURE", msg |-> "Error: Invalid timestamp in signature"]
    ELSE IF ~Lookup(f, BasePathOf(path)).exists
    THEN [exit |-> "FAILURE", msg |-> "Could not open base file"]
    ELSE IF HashDiffers(Sha3_512(Lookup(f, BasePathOf(path)).content),
                        DigestField(d).val)
    THEN [exit |-> "FAILURE", msg |-> "Error: Signature does not match base file"]
    ELSE [exit |-> "SUCCESS", msg |-> ""]

\* the token's nonce field: NONCE_LEN hex characters
NONCE_HEX == [i \in 1..NONCE_LEN |-> LowerHexChar(i % 16)]

\* the envelope the token builds for a sign command: nonce, then the payload
\* it was sent
EnvelopeFor(cmd) == NONCE_HEX \o SubSeq(cmd, Len(AT_S) + 1, Len(cmd) - 2)

(***************************************************************************)
(* main, main.rs:154-309.                                                  *)
(***************************************************************************)
Exit(code, msg) == exit_code' = code /\ stderr' = msg /\ pc' = "exited"

NoArg == <<-1>>
PortsError == <<-1>>

\* main.rs:155-174: a new process: the argument, available_ports()
StartRun(path, plist) ==
    /\ pc \in {"idle", "exited"}
    /\ runs < MaxRuns
    /\ runs' = runs + 1
    /\ file_path' = path
    /\ written' = <<>> /\ pending' = <<>>
    /\ buffer' = <<>> /\ n' = 0 /\ n_arg' = 0 /\ elapsed' = 0 /\ error' = ""
    /\ received' = <<>>
    /\ stage' = "start" /\ data' = <<>> /\ sig_file' = FALSE
    /\ info_msg' = <<>> /\ max_msg_len' = 0 /\ res' = <<>>
    /\ fs0' = fs /\ dev' = NoDev
    /\ port_name' = NoPort
    /\ IF path = NoArg
       THEN /\ Exit("FAILURE", "Argument required: path to file to sign")
            /\ ports' = <<>> /\ ports_arg' = <<>>
       ELSE IF plist = PortsError
       THEN /\ Exit("FAILURE", "Error: available_ports")
            /\ ports' = <<>> /\ ports_arg' = <<>>
       ELSE /\ ports' = plist /\ ports_arg' = plist
            /\ pc' = "locate"
            /\ exit_code' = "running" /\ stderr' = ""
    /\ UNCHANGED <<fs, signed, hexvars, pathvars>>

\* main.rs:166-181: the result of locate_token, then serialport::new(..).open()
OpenPort(ok) ==
    /\ pc = "located"
    /\ stage = "start"
    /\ IF port_name = NoPort THEN Exit("FAILURE", "Error: Token not found")
       ELSE IF ~ok THEN Exit("FAILURE", "Error: Failed to open serial port")
       ELSE pc' = "init_write" /\ UNCHANGED <<exit_code, stderr>>
    /\ UNCHANGED <<locvars, serial, xvars, hexvars, pathvars, stage, file_path, fs, data,
                   sig_file, info_msg, max_msg_len, runs, res, fs0, dev, signed>>

\* init_communication, main.rs:40-44: set_timeout, the write of "\r\n"; the
\* device answers with `reply`
InitWrite(reply, ok) ==
    /\ pc = "init_write"
    /\ stage' = "init"
    /\ res' = <<>>
    /\ elapsed' = 0
    /\ IF ok
       THEN /\ written' = Append(written, CRLF)
            /\ pending' = pending \o reply.bytes
            /\ dev' = [dev EXCEPT !.init = reply.kind]
            /\ pc' = "init_loop"
            /\ error' = ""
       ELSE /\ pc' = "init_err"
            /\ error' = "io"
            /\ UNCHANGED <<serial, dev>>
    /\ UNCHANGED <<locvars, hexvars, pathvars, buffer, n, n_arg, received, file_path, fs, data,
                   sig_file, info_msg, max_msg_len, exit_code, stderr, runs, fs0,
                   signed>>

\* the serial timeout in place of the handshake timeout
InitDeadlineIsSerialTimeout(t) == t > SERIAL_TIMEOUT

\* main.rs:58: Instant::now().duration_since(start) > INIT_TIMEOUT
InitDeadlinePassed(t) == t > INIT_TIMEOUT

\* init_communication, main.rs:45-62: one pass of the loop
InitIter(k, d) ==
    /\ pc = "init_loop"
    /\ k <= Min(BUF_LEN, Len(pending))
    /\ LET res1 == IF k > 0 THEN res \o Take(pending, k) ELSE res
           t1 == elapsed + d
       IN /\ pending' = Drop(pending, k)
          /\ res' = res1
          /\ IF CountLF(res1) > 0
             THEN pc' = "init_ok" /\ elapsed' = 0 /\ error' = error
             ELSE IF InitDeadlinePassed(t1)
                  THEN pc' = "init_err" /\ elapsed' = t1 /\ error' = "No response"
                  ELSE /\ pc' = "init_loop"
                       /\ elapsed' = t1 + PROBE_GRANUALITY
                       /\ error' = error
    /\ UNCHANGED <<written, locvars, hexvars, pathvars, buffer, n, n_arg, received, stage,
                   file_path, fs, data, sig_file, info_msg, max_msg_len, exit_code,
                   stderr, runs, fs0, dev, signed>>

\* main.rs:182-185
InitDoneIgnoringError ==
    /\ pc \in {"init_ok", "init_err"}
    /\ stage = "init"
    /\ pc' = "get_files"
    /\ res' = <<>>
    /\ elapsed' = 0
    /\ UNCHANGED <<locvars, serial, hexvars, pathvars, buffer, n, n_arg, error, received, stage,
                   file_path, fs, data, sig_file, info_msg, max_msg_len, runs, fs0,
                   dev, signed, exit_code, stderr>>

InitDone ==
    /\ pc \in {"init_ok", "init_err"}
    /\ stage = "init"
    /\ IF pc = "init_err"
       THEN Exit("FAILURE", "Error while starting up")
       ELSE pc' = "get_files" /\ UNCHANGED <<exit_code, stderr>>
    /\ res' = <<>>
    /\ elapsed' = 0
    /\ UNCHANGED <<locvars, serial, hexvars, pathvars, buffer, n, n_arg, error, received, stage,
                   file_path, fs, data, sig_file, info_msg, max_msg_len, runs, fs0,
                   dev, signed>>

\* get_files, main.rs:108-145, and main.rs:187-193.  `now` is the clock's
\* seconds; `io_ok` is whether the sidecar can be opened for writing.
GetFiles(now, io_ok) ==
    /\ pc = "get_files"
    /\ LET f == Lookup(fs, file_path)
           sig_path == file_path \o DOT_SIG
       IN IF ~f.exists
          THEN /\ Exit("FAILURE", "Error acquiring file: not found")
               /\ UNCHANGED <<fs, data, sig_file>>
          ELSE IF ~EndsWith(file_path, DOT_SIG)
          THEN IF io_ok /\ sig_path \in DOMAIN fs
               THEN /\ data' = SignRequest(now, f.content)
                    /\ sig_file' = TRUE
                    /\ fs' = [fs EXCEPT ![sig_path] =
                                 IF @.exists THEN @ ELSE File(<<>>)]
                    /\ pc' = "info_call"
                    /\ UNCHANGED <<exit_code, stderr>>
               ELSE /\ Exit("FAILURE", "Error acquiring file: cannot open sidecar")
                    /\ UNCHANGED <<fs, data, sig_file>>
          ELSE IF Len(StripRun(f.content)) = 0
          THEN /\ Exit("panic", "panicked")
               /\ UNCHANGED <<fs, data, sig_file>>
          ELSE IF SidecarInvalid(StripRun(f.content))
          THEN /\ Exit("FAILURE", "Error acquiring file: Invalid signature file")
               /\ UNCHANGED <<fs, data, sig_file>>
          ELSE /\ data' = StripRun(f.content)
               /\ sig_file' = FALSE
               /\ pc' = "info_call"
               /\ UNCHANGED <<fs, exit_code, stderr>>
    /\ UNCHANGED <<locvars, serial, xvars, hexvars, pathvars, stage, file_path, info_msg,
                   max_msg_len, runs, res, fs0, dev, signed>>

\* send_and_read_resp, main.rs:73-75: write_all(cmd), to which the device
\* answers with `reply`; `ok` is whether the write succeeded
XCall(cmd, lines, reply, ok) ==
    /\ n' = lines
    /\ n_arg' = lines
    /\ elapsed' = 0
    /\ received' = <<>>
    /\ IF ok
       THEN /\ written' = Append(written, cmd)
            /\ pending' = pending \o reply
            /\ pc' = "x_loop"
            /\ error' = ""
       ELSE /\ pc' = "x_err"
            /\ error' = "io"
            /\ UNCHANGED serial

\* main.rs:196-199
InfoCall(reply, ok) ==
    /\ pc = "info_call"
    /\ stage' = "info"
    /\ buffer' = <<>>
    /\ XCall(AT_I, 4, reply.bytes, ok)
    /\ dev' = [dev EXCEPT !.info = IF ok THEN reply.kind ELSE "unsent"]
    /\ UNCHANGED <<locvars, hexvars, pathvars, file_path, fs, data, sig_file, info_msg,
                   max_msg_len, exit_code, stderr, runs, res, fs0, signed>>

\* main.rs:199-221
InfoDone ==
    /\ pc \in {"x_ok", "x_err"}
    /\ stage = "info"
    /\ IF pc = "x_err"
       THEN /\ Exit("FAILURE", "Error getting device info")
            /\ UNCHANGED <<info_msg, max_msg_len>>
       ELSE /\ info_msg' = buffer
            /\ IF ParseCapacity(buffer).kind = "panic"
               THEN Exit("panic", "panicked") /\ UNCHANGED max_msg_len
               ELSE /\ max_msg_len' = ParseCapacity(buffer).val
                    /\ IF CapacityInsufficient(ParseCapacity(buffer).val)
                       THEN Exit("FAILURE",
                                 "Error: Device message capacity insufficient")
                       ELSE /\ pc' = IF sig_file THEN "sign_call" ELSE "verify_call"
                            /\ UNCHANGED <<exit_code, stderr>>
    /\ UNCHANGED <<locvars, serial, xvars, hexvars, pathvars, stage, file_path, fs, data,
                   sig_file, runs, res, fs0, dev, signed>>

\* main.rs:223-231
SignCall(kind, ok) ==
    /\ pc = "sign_call"
    /\ stage' = "sign"
    /\ buffer' = <<>>
    /\ LET cmd == SignCommand(data)
           reply == CASE kind = "envelope" -> EnvelopeFor(cmd) \o CRLF
                      [] kind = "error" -> ERROR \o CRLF
                      [] kind = "short" -> <<54, 102>> \o CRLF
                      [] OTHER -> <<>>
       IN XCall(cmd, 1, reply, ok)
    /\ dev' = [dev EXCEPT !.cmd = IF ok THEN kind ELSE "unsent"]
    /\ UNCHANGED <<locvars, hexvars, pathvars, file_path, fs, data, sig_file, info_msg,
                   max_msg_len, exit_code, stderr, runs, res, fs0, signed>>

\* main.rs:231-246.  `wrote` is how many bytes write_all wrote: all of them,
\* or fewer when it failed.
SignDone(wrote) ==
    /\ pc \in {"x_ok", "x_err"}
    /\ stage = "sign"
    /\ LET sig_path == file_path \o DOT_SIG
           out == buffer \o CRLF
       IN IF pc = "x_err"
          THEN /\ Exit("FAILURE", "Error while signing")
               /\ UNCHANGED <<buffer, fs, signed>>
          ELSE IF ContainsError(buffer)
          THEN /\ Exit("FAILURE", "Signature creation failed")
               /\ UNCHANGED <<buffer, fs, signed>>
          ELSE /\ buffer' = out
               /\ wrote <= Len(out)
               /\ fs' = [fs EXCEPT ![sig_path].content =
                            WriteAtStart(@, Take(out, wrote))]
               /\ signed' = [ok |-> wrote = Len(out) /\ dev = GoodSignDev,
                             content |-> Lookup(fs, file_path).content]
               /\ IF wrote = Len(out)
                  THEN Exit("SUCCESS", "")
                  ELSE Exit("FAILURE", "Error writing signature to file")
    /\ UNCHANGED <<locvars, serial, n, n_arg, elapsed, error, received, hexvars, pathvars, stage,
                   file_path, data, sig_file, info_msg, max_msg_len, runs, res,
                   fs0, dev>>

\* main.rs:249-253
VerifyCall(kind, ok) ==
    /\ pc = "verify_call"
    /\ stage' = "verify"
    /\ buffer' = <<>>
    /\ LET reply == CASE kind = "ok" -> <<79, 75>> \o CRLF
                      [] kind = "error" -> ERROR \o CRLF
                      [] OTHER -> <<>>
       IN XCall(VerifyCommand(data), 1, reply, ok)
    /\ dev' = [dev EXCEPT !.cmd = IF ok THEN kind ELSE "unsent"]
    /\ UNCHANGED <<locvars, hexvars, pathvars, file_path, fs, data, sig_file, info_msg,
                   max_msg_len, exit_code, stderr, runs, res, fs0, signed>>

\* main.rs:253-308
VerifyDone ==
    /\ pc \in {"x_ok", "x_err"}
    /\ stage = "verify"
    /\ IF pc = "x_err" THEN Exit("FAILURE", "Error while verifying")
       ELSE IF ContainsError(buffer) THEN Exit("FAILURE", "Signature is invalid")
       ELSE Exit(VerifyOutcome(data, fs, file_path).exit,
                 VerifyOutcome(data, fs, file_path).msg)
    /\ UNCHANGED <<locvars, serial, xvars, hexvars, pathvars, stage, file_path, fs, data,
                   sig_file, info_msg, max_msg_len, runs, res, fs0, dev, signed>>

\* between two runs the user edits the file that was signed
MutateBase(path, content) ==
    /\ pc = "exited"
    /\ runs < MaxRuns
    /\ Lookup(fs, path).exists
    /\ fs[path].content # content
    /\ fs' = [fs EXCEPT ![path].content = content]
    /\ pc' = "idle"
    /\ UNCHANGED <<locvars, serial, xvars, hexvars, pathvars, stage, file_path, data,
                   sig_file, info_msg, max_msg_len, exit_code, stderr, runs, res,
                   fs0, dev, signed>>

(***************************************************************************)
(* Spec: up to MaxRuns runs of the program, one after the other, on a      *)
(* filesystem that holds the file "f" and any of the sidecars below,       *)
(* against a device that answers each command with any reply of the sets   *)
(* below, delivered in short or full reads.                                *)
(***************************************************************************)
\* "f", "f.sig"
BasePath == <<102>>
SigPath == BasePath \o DOT_SIG
\* "hi", "ho"
FileContents == {<<104, 105>>, <<104, 111>>}
\* the clock's seconds at signing
Times == {1700000000}

Envelope(ts, digest) == NONCE_HEX \o EncodeHex(ts \o <<PIPE>> \o digest)

Repeat(c, k) == [i \in 1..k |-> c]

\* a sidecar of "hi"; the empty one; line terminators only; an odd length; a
\* longer file of another format; the shortest length get_files accepts; a
\* digest field that is not hex; a zero timestamp; a timestamp field whose
\* first byte is written "+1"; the timestamp -1 - 2^56 (top bit set)
Sidecars ==
    { Envelope(ToLeBytes(1700000000), Sha3_512(<<104, 105>>)) \o CRLF,
      <<>>,
      CRLF,
      <<97, 98, 99>>,
      Repeat(120, 233),
      Repeat(49, NONCE_LEN + SHA3_512_SIZE * 2 + 4),
      Take(Envelope(ToLeBytes(1700000000), Sha3_512(<<104, 105>>)), NONCE_LEN + 18)
          \o Repeat(122, SHA3_512_SIZE * 2),
      Envelope(ToLeBytes(0), Sha3_512(<<104, 105>>)),
      NONCE_HEX \o <<43, 49>>
          \o Drop(EncodeHex(ToLeBytes(1) \o <<PIPE>> \o Sha3_512(<<104, 105>>)), 2),
      Envelope(<<255, 255, 255, 255, 255, 255, 255, 254>>, Sha3_512(<<104, 105>>)) }

Filesystems ==
    { [p \in {BasePath, SigPath} |-> IF p = BasePath THEN b ELSE g] :
        b \in {Absent, File(<<104, 105>>)},
        g \in {Absent} \cup {File(c) : c \in Sidecars} }

ArgPaths == {NoArg, BasePath, SigPath}

\* no port; a port that is not the token before the token
PortLists2 ==
    { PortsError,
      <<>>,
      << [port_name |-> "ttyS0", port_type |-> "PciPort", vid |-> 0, pid |-> 0,
          manufacturer |-> NoneStr, product |-> NoneStr],
         [port_name |-> "ttyACM0", port_type |-> "UsbPort", vid |-> TOKEN_VID,
          pid |-> TOKEN_PID, manufacturer |-> "ABW",
          product |-> "STM32 NTRU Token"] >> }

InitReplies == { [kind |-> "good", bytes |-> CRLF], [kind |-> "silent", bytes |-> <<>>] }

\* "i\r\nd\r\nv\r\n"
InfoHead == <<105, 13, 10, 100, 13, 10, 118, 13, 10>>
\* "max "
MaxWord == <<109, 97, 120, 32>>

\* capacity 74, 73 and 8; a last token that is no number; a blank last line,
\* after a letter and after the capacity; four bare line feeds; one line only;
\* a fifth line; five bare line feeds
InfoReplies ==
    { [kind |-> "good", bytes |-> InfoHead \o MaxWord \o <<55, 52>> \o CRLF],
      [kind |-> "cap73", bytes |-> InfoHead \o MaxWord \o <<55, 51>> \o CRLF],
      [kind |-> "cap8", bytes |-> InfoHead \o MaxWord \o <<56>> \o CRLF],
      [kind |-> "nan", bytes |-> InfoHead \o MaxWord \o <<110>> \o CRLF],
      [kind |-> "blank", bytes |-> InfoHead \o CRLF],
      [kind |-> "blank74", bytes |-> <<105, 13, 10, 100, 13, 10>> \o MaxWord
                                        \o <<55, 52>> \o CRLF \o CRLF],
      [kind |-> "lf4", bytes |-> <<10, 10, 10, 10>>],
      [kind |-> "one", bytes |-> <<105, 13, 10>>],
      [kind |-> "five", bytes |-> InfoHead \o MaxWord \o <<55, 52>> \o CRLF
                                     \o <<122>> \o CRLF],
      [kind |-> "lf5", bytes |-> <<10, 10, 10, 10, 10>>] }

SignReplyKinds == {"envelope", "error", "short", "silent"}
VerifyReplyKinds == {"ok", "error", "silent"}

\* a read takes what is pending, up to ShortRead bytes or up to the buffer
ReadSizes == {Min(ShortRead, Len(pending)), Min(BUF_LEN, Len(pending))}

Init ==
    /\ pc = "idle"
    /\ stage = "start"
    /\ fs \in Filesystems
    /\ fs0 = fs
    /\ runs = 0
    /\ signed = NotSigned
    /\ RunIdle /\ LocIdle /\ SerialIdle /\ XIdle /\ HexIdle

Next ==
    \/ \E path \in ArgPaths, plist \in PortLists2 : StartRun(path, plist)
    \/ LocateStep
    \/ \E ok \in BOOLEAN : OpenPort(ok)
    \/ \E reply \in InitReplies, ok \in BOOLEAN : InitWrite(reply, ok)
    \/ \E k \in ReadSizes : InitIter(k, ReadTime(k))
    \/ InitDone
    \/ \E now \in Times, ok \in BOOLEAN : GetFiles(now, ok)
    \/ \E reply \in InfoReplies, ok \in BOOLEAN : InfoCall(reply, ok)
    \/ \E k \in ReadSizes : XIter(k, ReadTime(k))
    \/ XTrim
    \/ InfoDone
    \/ \E kind \in SignReplyKinds, ok \in BOOLEAN : SignCall(kind, ok)
    \/ \E wrote \in {0, 1, Len(buffer) + 2} : SignDone(wrote)
    \/ \E kind \in VerifyReplyKinds, ok \in BOOLEAN : VerifyCall(kind, ok)
    \/ VerifyDone
    \/ \E c \in FileContents : MutateBase(BasePath, c)

Spec == Init /\ [][Next]_vars

(***************************************************************************)
(* Claims about the runs of the program.                                   *)
(***************************************************************************)
InRun == runs > 0 /\ pc # "idle"
Exited == runs > 0 /\ pc = "exited"
SignRun == InRun /\ file_path # NoArg /\ ~EndsWith(file_path, DOT_SIG)
VerifyRun == InRun /\ file_path # NoArg /\ EndsWith(file_path, DOT_SIG)

SentSignOrVerify ==
    \E i \in 1..Len(written) :
        StartsWith(written[i], AT_S) \/ StartsWith(written[i], AT_V)

\* digest size + timestamp + separator and line terminator
C3_MinCapacity == 64 + 8 + 2

\* C3: AT+S / AT+V is written only after AT+I was written and its exchange,
\* called for 4 lines, returned a reply whose last line's last token parses to
\* a capacity of at least C3_MinCapacity; and a run whose AT+I reply reports
\* less ends in failure with the capacity message and has sent neither.
C3_CapacityGate ==
    /\ SentSignOrVerify =>
          /\ Len(written) = 3
          /\ written[2] = AT_I
          /\ ParseCapacity(info_msg).kind = "Ok"
          /\ ParseCapacity(info_msg).val >= C3_MinCapacity
          /\ max_msg_len = ParseCapacity(info_msg).val
    /\ (Exited /\ stage = "info" /\ error = "" /\ ParseCapacity(info_msg).kind = "Ok"
           /\ ParseCapacity(info_msg).val < C3_MinCapacity) =>
          /\ exit_code = "FAILURE"
          /\ stderr = "Error: Device message capacity insufficient"
          /\ ~SentSignOrVerify

\* AT+S has been written, after an AT+I reply that reported capacity 74
C3_Witness ==
    /\ SentSignOrVerify
    /\ dev.info = "good"
    /\ max_msg_len = 74
    /\ StartsWith(written[3], AT_S)

\* C4: a run that rejects its sidecar as malformed has written nothing to the
\* serial handle.
C4_RejectedBeforeAnyWrite ==
    (Exited /\ stderr = "Error acquiring file: Invalid signature file") =>
        written = <<>>

\* C5: a run ends with exit code 0 or 1 and in no other way; 1 comes with a
\* message, 0 only from the end of the sign or the verify branch.
C5_ExitZeroOrOne ==
    /\ exit_code \in {"running", "SUCCESS", "FAILURE"}
    /\ exit_code = "FAILURE" => stderr # ""
    /\ exit_code = "SUCCESS" => stage \in {"sign", "verify"}

\* every reply the device gave in this run was that of a device that works
C6_DeviceWorks ==
    /\ dev.init = "good"
    /\ dev.info \in {"", "good"}
    /\ dev.cmd \in {"", "ok"}

\* the digest field of a sidecar's text, decoded
C6_EmbeddedDigest(text) ==
    DecodeHex(SubSeq(text, NONCE_LEN + 19, NONCE_LEN + 18 + 128)).val

\* C6: after a sign run of "f" that succeeded on the envelope of a working
\* device, a verify run of "f.sig" on the unmodified file, with a device that
\* works and does not answer ERROR, succeeds, and the sidecar's digest is the
\* SHA3-512 of the file.
C6_SignThenVerify ==
    (Exited /\ VerifyRun /\ file_path = SigPath /\ signed.ok
        /\ fs[BasePath].exists /\ fs[BasePath].content = signed.content
        /\ C6_DeviceWorks) =>
       /\ exit_code = "SUCCESS"
       /\ C6_EmbeddedDigest(fs[SigPath].content) = Sha3_512(fs[BasePath].content)

\* C7: a verify run succeeds only if the SHA3-512 of the base file equals the
\* digest embedded in the sidecar; when the file was changed after signing and
\* the device answered AT+V without ERROR, the run fails with the hash
\* mismatch message; and a verify run leaves the sidecar as it was.
C7_VerifyOnlyIfDigestMatches ==
    /\ (Exited /\ VerifyRun /\ exit_code = "SUCCESS") =>
          /\ Lookup(fs, BasePath).exists
          /\ Sha3_512(fs[BasePath].content) = C6_EmbeddedDigest(fs[SigPath].content)
    /\ (Exited /\ VerifyRun /\ stage = "verify" /\ error = ""
           /\ ~Contains(buffer, ERROR) /\ signed.ok
           /\ fs[BasePath].exists /\ fs[BasePath].content # signed.content) =>
          /\ exit_code = "FAILURE"
          /\ stderr = "Error: Signature does not match base file"
    /\ VerifyRun => fs[SigPath] = fs0[SigPath]

\* a verify run, after a successful signing and a change of the file, that
\* the device answered "OK" and that ended with the hash mismatch
C7_Witness ==
    /\ Exited /\ VerifyRun /\ stage = "verify"
    /\ signed.ok
    /\ fs[BasePath].content # signed.content
    /\ dev.cmd = "ok"
    /\ stderr = "Error: Signature does not match base file"

C8_SidecarContent(f) == Lookup(f, file_path \o DOT_SIG).content

\* C8: in a sign run the sidecar's content changes only at the end of an AT+S
\* exchange that returned a reply without ERROR; a run whose handshake or
\* exchange failed, whose capacity check failed or whose AT+S reply holds
\* ERROR ends in failure with the sidecar's content as it was.
C8_NoSidecarContentOnFailure ==
    SignRun =>
       /\ C8_SidecarContent(fs) # C8_SidecarContent(fs0) =>
             /\ pc = "exited" /\ stage = "sign" /\ error = ""
             /\ ~Contains(buffer, ERROR)
       /\ (pc = "exited" /\ (\/ error # ""
                             \/ stage = "info" /\ exit_code = "FAILURE"
                             \/ stage = "sign" /\ Contains(buffer, ERROR))) =>
             /\ exit_code = "FAILURE"
             /\ C8_SidecarContent(fs) = C8_SidecarContent(fs0)

\* a sign run over an existing sidecar that the device answered with ERROR
C8_Witness ==
    /\ SignRun /\ pc = "exited" /\ stage = "sign"
    /\ dev.cmd = "error"
    /\ Contains(buffer, ERROR)
    /\ exit_code = "FAILURE"
    /\ Len(C8_SidecarContent(fs)) > 0

(***************************************************************************)
(* SpecEnvelope: an envelope text of the layout the verify branch reads    *)
(* (main.rs:261-273), built from every nonce, timestamp and digest below,  *)
(* in lowercase or uppercase hex, then parsed as main parses `data`.       *)
(***************************************************************************)
\* a-f to A-F
UpperHex(text) == [i \in 1..Len(text) |-> IF text[i] >= 97 THEN text[i] - 32 ELSE text[i]]

\* NONCE_LEN hex characters: a mixed nonce, all '0', all 'f', all '9'
EnvNonces == {NONCE_HEX, Repeat(48, NONCE_LEN), Repeat(102, NONCE_LEN), Repeat(57, NONCE_LEN)}

\* little-endian, non-zero and within chrono's range: 1, 1700000000, 2^32 - 1,
\* the last and the first second chrono represents, and -1
EnvTimes ==
    { ToLeBytes(1), ToLeBytes(1700000000), <<255, 255, 255, 255, 0, 0, 0, 0>>,
      Reverse(CHRONO_MAX_BE), Reverse(CHRONO_MIN_BE), Repeat(255, 8) }

EnvDigests ==
    { Sha3_512(<<104, 105>>), Sha3_512(<<104, 111>>), Repeat(0, SHA3_512_SIZE),
      Repeat(255, SHA3_512_SIZE), [i \in 1..SHA3_512_SIZE |-> (37 * i) % 256] }

InitEnvelope ==
    /\ pc = "env_build"
    /\ stage = "unit"
    /\ hex_in \in {ts \o <<PIPE>> \o digest : ts \in EnvTimes, digest \in EnvDigests}
    /\ hex_text = <<>>
    /\ hex_out = Ok(<<>>)
    /\ LocIdle /\ SerialIdle /\ XIdle /\ MainIdle

\* the token's side: nonce, then the payload as hex text
EnvBuild(nonce, upper) ==
    /\ pc = "env_build"
    /\ data' = nonce \o (IF upper THEN UpperHex(EncodeHex(hex_in)) ELSE EncodeHex(hex_in))
    /\ pc' = "env_parse"
    /\ UNCHANGED <<hexvars, pathvars, locvars, serial, xvars, stage, file_path, fs, sig_file,
                   info_msg, max_msg_len, exit_code, stderr, runs, res, fs0, dev,
                   signed>>

\* main.rs:261-273: the timestamp and the digest main reads from `data`
EnvParse ==
    /\ pc = "env_parse"
    /\ hex_out' = IF DigestField(data).kind = "panic" THEN Panic
                  ELSE Ok(<<TimestampField(data), DigestField(data).val>>)
    /\ pc' = "env_parsed"
    /\ UNCHANGED <<hex_in, hex_text, pathvars, locvars, serial, xvars, mainvars>>

NextEnvelope ==
    \/ \E nonce \in EnvNonces, upper \in BOOLEAN : EnvBuild(nonce, upper)
    \/ EnvParse

SpecEnvelope == InitEnvelope /\ [][NextEnvelope]_vars

\* C11: the parse of an envelope built with the layout nonce, timestamp,
\* separator, digest gives back the timestamp's 8 bytes, which are not the
\* zero timestamp and convert to a calendar time, and the 64 digest bytes.
C11_ParseRoundTrip ==
    pc = "env_parsed" =>
        /\ hex_out.kind = "Ok"
        /\ hex_out.val[1] = SubSeq(hex_in, 1, 8)
        /\ hex_out.val[2] = SubSeq(hex_in, 10, 73)
        /\ ~TimestampIsZero(hex_out.val[1])
        /\ FromTimestampIsSome(hex_out.val[1])

\* an uppercase envelope with the all-'9' nonce and the last second chrono
\* represents, parsed
C11_Witness ==
    /\ pc = "env_parsed"
    /\ data[1] = 57
    /\ \E i \in 1..Len(data) : data[i] = 70
    /\ hex_out.val[1] = Reverse(CHRONO_MAX_BE)

(***************************************************************************)
(* Claims about the sidecar and the session, under Spec.                   *)
(***************************************************************************)
\* nonce, timestamp, separator and digest, in hex characters
C12_EnvelopeLength == NONCE_LEN + 16 + 2 + 128

\* the sidecar the run was started on, without its trailing CR/LF
C12_Stripped == StripRun(Lookup(fs0, file_path).content)

\* get_files has accepted the sidecar
C12_Accepted == pc = "info_call" \/ stage \in {"info", "verify"}

\* C12: a verify run goes past get_files only with a sidecar that, stripped
\* of its trailing CR/LF, is of even length and at least C12_EnvelopeLength
\* long (every other one is rejected), so the timestamp and the digest
\* fields lie within the data.
C12_ShortSidecarRejected ==
    (VerifyRun /\ C12_Accepted) =>
        /\ data = C12_Stripped
        /\ Len(data) % 2 = 0
        /\ Len(data) >= C12_EnvelopeLength
        /\ Len(data) >= NONCE_LEN + 18 + 128


\* C13: after a sign run that succeeded, the sidecar holds the bytes the
\* AT+S exchange returned followed by one CR LF (main's buffer after
\* main.rs:239) and nothing else, whatever it held before.
C13_SidecarIsReplyPlusCRLF ==
    (Exited /\ SignRun /\ exit_code = "SUCCESS") =>
        /\ EndsWith(buffer, CRLF)
        /\ Lookup(fs, file_path \o DOT_SIG).content = buffer


\* what a run has written so far: the handshake line terminator, then AT+I
\* once the handshake has found its newline, then AT+S for a path that does
\* not end in ".sig" or AT+V for one that does, once AT+I has been answered
C14_Order ==
    InRun =>
       /\ Len(written) <= 3
       /\ Len(written) >= 1 => written[1] = CRLF
       /\ Len(written) >= 2 => written[2] = AT_I /\ dev.init = "good"
       /\ Len(written) = 3 =>
             /\ ParseCapacity(info_msg).kind = "Ok"
             /\ IF EndsWith(file_path, DOT_SIG)
                THEN written[3] = AT_V \o data \o CRLF
                ELSE StartsWith(written[3], AT_S) /\ EndsWith(written[3], CRLF)

\* a step of a run that writes to the serial handle writes one command, from
\* a call site of main (no exchange is running) and with no failure behind it
C14_WriteStep ==
    (written' # written /\ runs' = runs) =>
        /\ Len(written') = Len(written) + 1
        /\ SubSeq(written', 1, Len(written)) = written
        /\ pc \in {"init_write", "info_call", "sign_call", "verify_call"}
        /\ pc \in {"info_call", "sign_call", "verify_call"} => error = ""
        /\ exit_code = "running"

\* C14: the commands of a run are the handshake line terminator, AT+I, then
\* one of AT+S / AT+V, each sent at most once and only after the call before
\* it returned Ok; after a failure nothing more is written.
C14_Sequential == []C14_Order /\ [][C14_WriteStep]_vars

\* a verify run whose AT+V exchange timed out and that ended there, with the
\* three commands written once each
C14_Witness ==
    /\ Exited /\ VerifyRun /\ stage = "verify"
    /\ error = "No response"
    /\ Len(written) = 3
    /\ StartsWith(written[3], AT_V)


(***************************************************************************)
(* More claims about the exchange primitive, under SpecExchange.           *)
(***************************************************************************)
\* C15: when the reply reaches the required count exactly and ends with a
\* terminator, the call returns what it read without its last run of CR/LF:
\* a prefix of the bytes read that does not end in CR/LF, the rest of them
\* being CR/LF only.
C15_OnlyTrailingRunRemoved ==
    (pc = "x_ok" /\ CountLF(received) = n_arg /\ IsTerminator(LastOrNul(received))) =>
        /\ Len(buffer) <= Len(received)
        /\ SubSeq(received, 1, Len(buffer)) = buffer
        /\ \A i \in (Len(buffer) + 1)..Len(received) : received[i] \in {CR, LF}
        /\ Len(buffer) > 0 => buffer[Len(buffer)] \notin {CR, LF}

\* two lines "a", read in any chunking, returned with the line feed between
\* them kept
C15_Witness ==
    /\ pc = "x_ok"
    /\ n_arg = 2
    /\ received = <<97, LF, 97, LF>>
    /\ buffer = <<97, LF, 97>>

\* C16: the call fails with "No response" only at a poll that finds the
\* deadline passed while fewer line feeds than required have been read; it
\* does not go on polling past such a poll; and it leaves the reading loop for
\* the trimming only when the required count has been read.
C16_TimeoutIffCountNotReached ==
    /\ (pc = "x_err" /\ error = "No response") =>
          /\ CountLF(received) < n_arg
          /\ elapsed > CMD_TIMEOUT
    /\ pc = "x_loop" =>
          /\ CountLF(received) < n_arg
          /\ elapsed - PROBE_GRANUALITY <= CMD_TIMEOUT
    /\ pc \in {"x_trim", "x_ok"} => CountLF(received) >= n_arg

\* a call for two lines that read one and then timed out
C16_Witness ==
    /\ pc = "x_err"
    /\ error = "No response"
    /\ n_arg = 2
    /\ received = <<97, LF>>


(***************************************************************************)
(* SpecHandshake: one call of init_communication against every device      *)
(* byte stream of at most MaxStream bytes over XAlphabet, delivered in      *)
(* every chunking, with timed-out reads in between.                         *)
(***************************************************************************)
InitHandshake ==
    /\ pc = "init_write"
    /\ stage = "unit"
    /\ LocIdle /\ SerialIdle /\ XIdle /\ MainIdle /\ HexIdle

NextHandshake ==
    \/ \E s \in Streams, ok \in BOOLEAN : InitWrite([kind |-> "stream", bytes |-> s], ok)
    \/ \E k \in 0..BUF_LEN : InitIter(k, ReadTime(k))

SpecHandshake == InitHandshake /\ [][NextHandshake]_vars

\* the loop of init_communication runs on its own: the write and every read
\* return, a read within the serial timeout
FairSpecHandshake == SpecHandshake /\ WF_vars(NextHandshake)

HandshakeDone == pc \in {"init_ok", "init_err"}

\* the handshake has returned Ok only with a line feed accumulated, has
\* returned "No response" only without one and past the deadline, and is
\* polling only without one and with no poll behind it that found the
\* deadline passed; the one write is the bare line terminator
C17_Outcome ==
    /\ pc = "init_ok" => written = <<CRLF>> /\ CountLF(res) > 0
    /\ (pc = "init_err" /\ error = "No response") =>
          /\ written = <<CRLF>>
          /\ CountLF(res) = 0
          /\ elapsed > INIT_TIMEOUT
    /\ pc = "init_loop" =>
          /\ written = <<CRLF>>
          /\ CountLF(res) = 0
          /\ elapsed - PROBE_GRANUALITY <= INIT_TIMEOUT

\* C17: init_communication returns Ok exactly when what it accumulated holds
\* a line feed, fails with "No response" once the handshake deadline passed
\* without one, and always ends in one of the two.
C17_Handshake == []C17_Outcome /\ <>HandshakeDone

\* a handshake that read bytes without a line feed, met reads that brought
\* nothing, and timed out
C17_Witness ==
    /\ pc = "init_err"
    /\ error = "No response"
    /\ Len(res) = 2
    /\ pending # <<>>


(***************************************************************************)
(* SpecPath: the base path main.rs:284 derives from a sidecar path, for     *)
(* every path of at most MaxPathParts parts drawn from PathParts, followed  *)
(* by ".sig".                                                               *)
(***************************************************************************)
\* "f", ".sig", "/", ".gz"
PathParts == {<<102>>, DOT_SIG, <<47>>, <<46, 103, 122>>}

RECURSIVE Concat(_)
Concat(parts) == IF Len(parts) = 0 THEN <<>> ELSE parts[1] \o Concat(Drop(parts, 1))

SidecarPaths ==
    {Concat(parts) \o DOT_SIG : parts \in UNION {[1..k -> PathParts] : k \in 0..MaxPathParts}}

InitPath ==
    /\ pc = "base_path"
    /\ stage = "unit"
    /\ file_path \in SidecarPaths
    /\ base_path = <<>>
    /\ data = <<>>
    /\ sig_file = FALSE
    /\ info_msg = <<>>
    /\ max_msg_len = 0
    /\ exit_code = "running"
    /\ stderr = ""
    /\ res = <<>>
    /\ dev = NoDev
    /\ fs = <<>> /\ fs0 = <<>> /\ runs = 0 /\ signed = NotSigned
    /\ LocIdle /\ SerialIdle /\ XIdle /\ HexIdle

\* main.rs:284: let file_path = file_path.replace(".sig", "")
BasePathStep ==
    /\ pc = "base_path"
    /\ base_path' = BasePathOf(file_path)
    /\ pc' = "base_path_done"
    /\ UNCHANGED <<locvars, serial, xvars, mainvars, hexvars>>

NextPath == BasePathStep

SpecPath == InitPath /\ [][NextPath]_vars

\* C18: the base file of the sidecar p.sig is p: the sidecar path with its
\* trailing ".sig" removed and nothing else changed.
C18_BaseIsPathWithoutSuffix ==
    pc = "base_path_done" => base_path \o DOT_SIG = file_path


(***************************************************************************)
(* SpecDecode: decode_hex on every text of at most MaxHexLen characters    *)
(* over DecodeAlphabet.                                                    *)
(***************************************************************************)
\* '0', 'a', 'F', 'g', '+'
DecodeAlphabet == {48, 97, 70, 103, 43}

DecodeInputs == UNION {[1..k -> DecodeAlphabet] : k \in 0..MaxHexLen}

InitDecode ==
    /\ pc = "hex_decode"
    /\ stage = "unit"
    /\ hex_in = <<>>
    /\ hex_text \in DecodeInputs
    /\ hex_out = Ok(<<>>)
    /\ LocIdle /\ SerialIdle /\ XIdle /\ MainIdle

NextDecode == HexDecode

SpecDecode == InitDecode /\ [][NextDecode]_vars

\* 0-9, a-f, A-F
C19_IsHex(c) == (c >= 48 /\ c <= 57) \/ (c >= 97 /\ c <= 102) \/ (c >= 65 /\ c <= 70)

\* C19: decode_hex returns Ok on a text of even length made of hex digits
\* only, and Err (no abort, no Ok) on every other text.
C19_DecodeErrOnMalformed ==
    pc = "hex_done" =>
        IF Len(hex_text) % 2 = 0 /\ \A i \in 1..Len(hex_text) : C19_IsHex(hex_text[i])
        THEN hex_out.kind = "Ok"
        ELSE hex_out.kind = "Err"


(***************************************************************************)
(* Claims about the timestamp of the envelope, under Spec.                 *)
(***************************************************************************)
\* the 16 characters after the nonce
C20_TimestampText == SubSeq(data, NONCE_LEN + 1, NONCE_LEN + 16)

\* the field is 16 hex digits
C20_IsHexText ==
    \A i \in 1..16 : C19_IsHex(C20_TimestampText[i])

\* the 8 bytes the 16 hex digits stand for
C20_TimestampBytes ==
    [i \in 1..8 |-> 16 * HexDigitValue(C20_TimestampText[2 * i - 1])
                       + HexDigitValue(C20_TimestampText[2 * i])]

\* the field does not decode, or decodes to zero, or to a second chrono does
\* not represent (a set top bit makes the i64 negative)
C20_BadTimestamp ==
    \/ ~C20_IsHexText
    \/ \A i \in 1..8 : C20_TimestampBytes[i] = 0
    \/ IF C20_TimestampBytes[8] >= 128
       THEN ~LexLE(CHRONO_MIN_BE, Reverse(C20_TimestampBytes))
       ELSE ~LexLE(Reverse(C20_TimestampBytes), CHRONO_MAX_BE)

\* C20: a verify run whose AT+V reply came without ERROR and whose envelope
\* has a bad timestamp field ends in failure with one of the two timestamp
\* messages, that is, before the base file is opened and hashed.
C20_BadTimestampFails ==
    (Exited /\ VerifyRun /\ stage = "verify" /\ error = ""
        /\ ~Contains(buffer, ERROR) /\ C20_BadTimestamp) =>
       /\ exit_code = "FAILURE"
       /\ stderr \in {"Error: Malformed timestamp in signature",
                      "Error: Invalid timestamp in signature"}

=============================================================================
